---------------------------- MODULE Spec2Model ----------------------------
(***************************************************************************)
(* A model of csv2vbo.py: the conversion of a data logger's CSV log to a   *)
(* RaceLogic VBO log (read_csv, find_converter, Converter.convert,         *)
(* interpolate_vbo, format_vbo, write_vbo).                                *)
(*                                                                         *)
(* Texts.  A Python str is a sequence of pieces.  A piece is one character *)
(* wherever the program looks inside the text (the digits, sign and point  *)
(* of a number, the fields of a time stamp, the blanks that strip()        *)
(* removes) and a whole word where the program only compares the text (a   *)
(* column name, the date and the zone of a time stamp).                    *)
(*                                                                         *)
(* Numbers.  A decimal.Decimal is the record [k |-> "dec", neg, n, d]: the *)
(* value n/d in lowest terms with its sign kept apart, so that the         *)
(* negative zero that Decimal carries (and "%f" prints) is a value.  The   *)
(* arithmetic is exact: the 28 digits of the default decimal context are   *)
(* more than any value of the tables below needs, except for a quotient    *)
(* that does not terminate, which the context rounds in its 28th digit.    *)
(***************************************************************************)
EXTENDS Integers, Sequences, FiniteSets, TLC

VARIABLES
    pc,         \* the statement of the script the run has reached
    resolution, \* the resolution handed to interpolate_vbo
    csv_input,  \* the records csv.reader yields from stdin
    csv_data,   \* the data frame read_csv returns
    converter,  \* the converter find_converter returns, or "None"
    vbo_data,   \* the data frame of the current stage
    vbo_output, \* the lines written to stdout
    stderr,     \* the diagnostics written to stderr
    raised      \* the exception that ended the run, or "None"

vars == <<pc, resolution, csv_input, csv_data, converter, vbo_data, vbo_output, stderr, raised>>

----------------------------------------------------------------------------
(* Sequences and integers.                                                 *)

Range(s) == {s[i] : i \in 1..Len(s)}

RECURSIVE SelectIdx(_, _, _)
\* The elements s[i] with i in keep, in order (a list comprehension).
SelectIdx(s, keep, i) ==
    IF i > Len(s) THEN <<>>
    ELSE (IF i \in keep THEN <<s[i]>> ELSE <<>>) \o SelectIdx(s, keep, i + 1)

RECURSIVE Concat(_)
Concat(ss) == IF ss = <<>> THEN <<>> ELSE Head(ss) \o Concat(Tail(ss))

\* list.index(x): the first position of x in s, 0 when absent.
IndexOf(s, x) ==
    IF \E i \in 1..Len(s) : s[i] = x
    THEN CHOOSE i \in 1..Len(s) : s[i] = x /\ \A j \in 1..(i - 1) : s[j] # x
    ELSE 0

\* dict(...).get(x) over enumerate(s): the last position of x in s, 0 when absent.
LastIndexOf(s, x) ==
    IF \E i \in 1..Len(s) : s[i] = x
    THEN CHOOSE i \in 1..Len(s) : s[i] = x /\ \A j \in (i + 1)..Len(s) : s[j] # x
    ELSE 0

Min(a, b) == IF a <= b THEN a ELSE b

Abs(x) == IF x < 0 THEN -x ELSE x

RECURSIVE Gcd(_, _)
Gcd(a, b) == IF b = 0 THEN a ELSE Gcd(b, a % b)

RECURSIVE Pow10(_)
Pow10(k) == IF k = 0 THEN 1 ELSE 10 * Pow10(k - 1)

----------------------------------------------------------------------------
(* decimal.Decimal.                                                        *)

\* The value (-1)^neg * n/d, brought to lowest terms.
Dec(neg, n, d) ==
    LET g == Gcd(n, d) IN [k |-> "dec", neg |-> neg, n |-> n \div g, d |-> d \div g]

DecInt(i) == Dec(i < 0, Abs(i), 1)

\* The str that _map_value returns for a cell it could not convert.
Sentinel == [k |-> "str", neg |-> FALSE, n |-> 0, d |-> 0]

IsDec(v) == v.k = "dec"

\* The signed numerator of v over the denominator v.d.
Num(v) == IF v.neg THEN -v.n ELSE v.n

\* Decimal.__eq__: by value, so 1.0 = 1.00 and -0 = 0.
DecEq(a, b) == Num(a) * b.d = Num(b) * a.d

DecLess(a, b) == Num(a) * b.d < Num(b) * a.d

DecLeq(a, b) == Num(a) * b.d <= Num(b) * a.d

\* a * b: the sign of the result is the exclusive or of the signs.
DecMul(a, b) == Dec(a.neg # b.neg, a.n * b.n, a.d * b.d)

\* a / b for b # 0.
DecDiv(a, b) == Dec(a.neg # b.neg, a.n * b.d, a.d * b.n)

\* a + b: a zero sum is negative only when both operands are negative.
DecAdd(a, b) ==
    LET s == Num(a) * b.d + Num(b) * a.d
    IN  Dec(IF s = 0 THEN a.neg /\ b.neg ELSE s < 0, Abs(s), a.d * b.d)

\* Decimal.__neg__: the negation of a zero is the positive zero.
DecNeg(a) == IF a.n = 0 THEN Dec(FALSE, 0, 1) ELSE Dec(~a.neg, a.n, a.d)

\* a - b is a + (-b) with the sign of b flipped, a zero included.
DecSub(a, b) == DecAdd(a, Dec(~b.neg, b.n, b.d))

\* Decimal.fma(self, other, third): self * other + third.
DecFma(self, other, third) == DecAdd(DecMul(self, other), third)

\* int(v): truncation towards zero.
DecTrunc(v) == IF v.neg THEN -(v.n \div v.d) ELSE v.n \div v.d

\* math.ceil(v).
DecCeil(v) == IF v.neg THEN -(v.n \div v.d) ELSE (v.n + v.d - 1) \div v.d

----------------------------------------------------------------------------
(* Texts.                                                                  *)

Digits == <<"0", "1", "2", "3", "4", "5", "6", "7", "8", "9">>

IsDigit(c) == c \in Range(Digits)

DigitVal(c) == IndexOf(Digits, c) - 1

AllDigits(s) == \A i \in 1..Len(s) : IsDigit(s[i])

RECURSIVE DigitsVal(_)
\* The number a run of digits denotes.
DigitsVal(s) ==
    IF s = <<>> THEN 0 ELSE 10 * DigitsVal(SubSeq(s, 1, Len(s) - 1)) + DigitVal(s[Len(s)])

RECURSIVE IntText(_)
\* "%d" % n for n >= 0.
IntText(n) == IF n < 10 THEN <<Digits[n + 1]>> ELSE IntText(n \div 10) \o <<Digits[(n % 10) + 1]>>

RECURSIVE Zeros(_)
Zeros(k) == IF k <= 0 THEN <<>> ELSE <<"0">> \o Zeros(k - 1)

\* The text s padded with zeros on the left to at least w pieces.
ZeroPad(s, w) == Zeros(w - Len(s)) \o s

RECURSIVE LStrip(_)
LStrip(s) == IF s # <<>> /\ Head(s) = " " THEN LStrip(Tail(s)) ELSE s

RECURSIVE RStrip(_)
RStrip(s) == IF s # <<>> /\ s[Len(s)] = " " THEN RStrip(SubSeq(s, 1, Len(s) - 1)) ELSE s

\* str.strip().
Strip(s) == RStrip(LStrip(s))

\* Whether Decimal(text) accepts the text: blanks around an optional sign and
\* digits with at most one point among them.  (The exponent, the infinities
\* and the NaNs that Decimal also reads are not texts of the model.)
DecimalAccepts(text) ==
    LET s == Strip(text)
        u == IF s # <<>> /\ s[1] \in {"+", "-"} THEN Tail(s) ELSE s
        p == IndexOf(u, ".")
        ip == IF p = 0 THEN u ELSE SubSeq(u, 1, p - 1)
        fp == IF p = 0 THEN <<>> ELSE SubSeq(u, p + 1, Len(u))
    IN  AllDigits(ip) /\ AllDigits(fp) /\ Len(ip) + Len(fp) > 0

\* Decimal(text) for a text it accepts.
DecimalOf(text) ==
    LET s == Strip(text)
        neg == s # <<>> /\ s[1] = "-"
        u == IF s # <<>> /\ s[1] \in {"+", "-"} THEN Tail(s) ELSE s
        p == IndexOf(u, ".")
        ip == IF p = 0 THEN u ELSE SubSeq(u, 1, p - 1)
        fp == IF p = 0 THEN <<>> ELSE SubSeq(u, p + 1, Len(u))
    IN  Dec(neg, DigitsVal(ip \o fp), Pow10(Len(fp)))


----------------------------------------------------------------------------
(* DataFrame.                                                              *)

DataFrame(head, data, info, units) ==
    [head |-> head, data |-> data, info |-> info, units |-> units]

\* The data frame before a stage has produced one.
NoFrame == DataFrame(<<>>, <<>>, <<>>, <<>>)

----------------------------------------------------------------------------
(* The converters: RaceChronoConverter, GTechFanaticConverter and          *)
(* TrackMasterConverter, each with its _base_map, _user_map, _value_map.   *)

RaceChrono == "RaceChronoConverter"

GTechFanatic == "GTechFanaticConverter"

TrackMaster == "TrackMasterConverter"

\* The tuple find_converter walks.
converters == <<RaceChrono, GTechFanatic, TrackMaster>>

\* A column name: a text of one piece.
N(word) == <<word>>

base_map(conv) ==
    CASE conv = RaceChrono ->
            (N("Locked satellites") :> "satellites") @@ (N("Timestamp (s)") :> "time")
            @@ (N("Latitude (deg)") :> "latitude") @@ (N("Longitude (deg)") :> "longitude")
            @@ (N("Speed (kph)") :> "velocity kmh") @@ (N("Bearing (deg)") :> "heading")
            @@ (N("Altitude (m)") :> "height")
      [] conv = GTechFanatic ->
            (N("Time(s)") :> "time") @@ (N("GPS_Lat") :> "latitude")
            @@ (N("GPS_Lon") :> "longitude") @@ (N("Speed(kph)") :> "velocity kmh")
            @@ (N("Heading(deg)") :> "heading")
      [] conv = TrackMaster ->
            (N("time=") :> "time") @@ (N("latitude=") :> "latitude")
            @@ (N("longitude=") :> "longitude") @@ (N("speed=") :> "velocity kmh")
            @@ (N("bearing=") :> "heading") @@ (N("altitude=") :> "height")

user_map(conv) ==
    CASE conv = RaceChrono ->
            (N("Lateral Acceleration (G)") :> <<"LatAcc", "m/s2">>)
            @@ (N("Longitudinal Acceleration (G)") :> <<"LongAcc", "m/s2">>)
      [] conv = GTechFanatic ->
            (N("G-Force_Lat(G)") :> <<"LatAcc", "m/s2">>)
            @@ (N("G-Force_Fwd(G)") :> <<"LongAcc", "m/s2">>)
      [] conv = TrackMaster ->
            (N("lateral_accel=") :> <<"LatAcc", "m/s2">>)
            @@ (N("accel=") :> <<"LongAcc", "m/s2">>)

\* The keys of _value_map: the same for the three converters.
value_map_keys ==
    {"satellites", "time", "latitude", "longitude", "velocity kmh", "heading",
     "height", "LatAcc", "LongAcc"}

\* recognizes with any() in the place of all().
recognizes_any(conv, row) == \E item \in DOMAIN base_map(conv) : item \in Range(row)

\* Converter.recognizes.
recognizes(conv, row) == \A item \in DOMAIN base_map(conv) : item \in Range(row)

\* Converter._map_name: the VBO name of a CSV column, "None" when unsupported.
map_name(conv, csv_name) ==
    IF csv_name \in DOMAIN base_map(conv) THEN base_map(conv)[csv_name]
    ELSE IF csv_name \in DOMAIN user_map(conv) THEN user_map(conv)[csv_name][1]
    ELSE "None"

\* The result of a value mapper: the value, or the exception it raised.
Ok(v) == [ok |-> TRUE, val |-> v]

Raises == [ok |-> FALSE, val |-> Sentinel]

\* lambda v: Decimal(v).
to_decimal(v) == IF DecimalAccepts(v) THEN Ok(DecimalOf(v)) ELSE Raises

\* Converter._decimal_or_default with the default 0.0.
decimal_or_default(v) == IF DecimalAccepts(v) THEN DecimalOf(v) ELSE DecInt(0)

\* The dates and zones a time stamp of the model carries.
Dates == {"2014-05-01T"}

Zones == {"+0200"}

\* Whether strptime(value, "%Y-%m-%dT%H:%M:%S.%f%z") accepts the text: the
\* date, two digits each of hour, minute and second, one to six digits of
\* fraction, the zone.
strptime_accepts(v) ==
    /\ Len(v) \in 12..17
    /\ v[1] \in Dates /\ v[Len(v)] \in Zones
    /\ v[4] = ":" /\ v[7] = ":" /\ v[10] = "."
    /\ AllDigits(SubSeq(v, 2, 3)) /\ AllDigits(SubSeq(v, 5, 6))
    /\ AllDigits(SubSeq(v, 8, 9)) /\ AllDigits(SubSeq(v, 11, Len(v) - 1))
    /\ DigitsVal(SubSeq(v, 2, 3)) <= 23
    /\ DigitsVal(SubSeq(v, 5, 6)) <= 59
    /\ DigitsVal(SubSeq(v, 8, 9)) <= 59

\* The fields of an accepted time stamp; %f pads the fraction with zeros on
\* the right to six digits.
strptime(v) ==
    LET f == SubSeq(v, 11, Len(v) - 1)
    IN  [hour |-> DigitsVal(SubSeq(v, 2, 3)), minute |-> DigitsVal(SubSeq(v, 5, 6)),
         second |-> DigitsVal(SubSeq(v, 8, 9)),
         microsecond |-> DigitsVal(f) * Pow10(6 - Len(f))]

\* Decimal("%d.%d" % (seconds, microseconds)): the digits of the two numbers
\* with a point between them.
decimal_of_pair(seconds, microseconds) ==
    DecAdd(DecInt(seconds), Dec(FALSE, microseconds, Pow10(Len(IntText(microseconds)))))

\* TrackMasterConverter._datetime_to_secs.  The difference of the time stamp
\* and the midnight of its day in its own zone has no days.
datetime_to_secs(value) ==
    IF ~strptime_accepts(value) THEN Raises
    ELSE LET full == strptime(value)
             delta == [seconds |-> full.hour * 3600 + full.minute * 60 + full.second,
                       microseconds |-> full.microsecond]
         IN  Ok(decimal_of_pair(delta.seconds, delta.microseconds))

\* _value_map[vbo_name](v) of the converter.
value_map(conv, vbo_name, v) ==
    LET d == to_decimal(v)
    IN  CASE vbo_name = "time" /\ conv = TrackMaster -> datetime_to_secs(v)
          [] vbo_name = "latitude" /\ conv = GTechFanatic ->
                IF d.ok THEN Ok(DecDiv(d.val, DecInt(10000))) ELSE Raises
          [] vbo_name = "longitude" /\ conv = GTechFanatic ->
                IF d.ok THEN Ok(DecDiv(DecNeg(d.val), DecInt(10000))) ELSE Raises
          [] vbo_name = "LatAcc" /\ conv = GTechFanatic -> Ok(DecNeg(decimal_or_default(v)))
          [] vbo_name = "latitude" /\ conv # GTechFanatic ->
                IF d.ok THEN Ok(DecMul(DecInt(60), d.val)) ELSE Raises
          [] vbo_name = "longitude" /\ conv # GTechFanatic ->
                IF d.ok THEN Ok(DecMul(DecInt(-60), d.val)) ELSE Raises
          [] vbo_name \in {"LatAcc", "LongAcc"} /\ ~(vbo_name = "LatAcc" /\ conv = GTechFanatic) ->
                Ok(decimal_or_default(v))
          [] OTHER -> d

\* Converter._map_value: the mapped value, or "-0" when the mapper raises.
map_value(conv, csv_value, vbo_name) == value_map(conv, vbo_name, csv_value).val

\* The warning _map_value prints when the mapper raises.
Warning(csv_value, vbo_name) == [value |-> csv_value, name |-> vbo_name]

\* zip(csv_values, mappers): the positions both have, with a mapper.
Mapped(conv, csv_values, vbo_names) ==
    {i \in 1..Min(Len(csv_values), Len(vbo_names)) : vbo_names[i] # "None"}

\* Converter._map_values: the mapped values of the supported columns.
map_values(conv, csv_values, vbo_names) ==
    LET all == [i \in 1..Min(Len(csv_values), Len(vbo_names)) |->
                    IF vbo_names[i] = "None" THEN Sentinel
                    ELSE map_value(conv, csv_values[i], vbo_names[i])]
    IN  SelectIdx(all, Mapped(conv, csv_values, vbo_names), 1)

\* The warnings _map_values prints for one row.
map_warnings(conv, csv_values, vbo_names) ==
    LET all == [i \in 1..Min(Len(csv_values), Len(vbo_names)) |->
                    Warning(csv_values[i], vbo_names[i])]
        bad == {i \in Mapped(conv, csv_values, vbo_names) :
                    ~value_map(conv, vbo_names[i], csv_values[i]).ok}
    IN  SelectIdx(all, bad, 1)

\* == of two cells: two Decimals by value, two strs by text, a Decimal and a
\* str never.
CellEq(a, b) == IF IsDec(a) /\ IsDec(b) THEN DecEq(a, b) ELSE a.k = b.k

\* == of two lists of cells.
RowEq(a, b) == Len(a) = Len(b) /\ \A i \in 1..Len(a) : CellEq(a[i], b[i])

\* The loop of Converter.convert without the test against last_row.
convert_rows_all(conv, rows, vbo_names, base_row, vbo_rows, has_last) ==
    vbo_rows \o [r \in 1..Len(rows) |-> base_row \o map_values(conv, rows[r], vbo_names)]

RECURSIVE convert_rows(_, _, _, _, _, _)
\* The loop of Converter.convert over csv_data.rows(): last_row is the row
\* appended last (<<>> with has_last false stands for None).
convert_rows(conv, rows, vbo_names, base_row, vbo_rows, has_last) ==
    IF rows = <<>> THEN vbo_rows
    ELSE LET vbo_row == base_row \o map_values(conv, Head(rows), vbo_names)
             differs == ~has_last \/ ~RowEq(vbo_row, vbo_rows[Len(vbo_rows)])
         IN  convert_rows(conv, Tail(rows), vbo_names, base_row,
                          IF differs THEN Append(vbo_rows, vbo_row) ELSE vbo_rows,
                          has_last \/ differs)

\* The units of the user-defined channels of the header.
convert_units(conv, header, vbo_head) ==
    LET names == {header[i] : i \in 1..Len(header)} \cap DOMAIN user_map(conv)
        chans == {user_map(conv)[n][1] : n \in names} \cap Range(vbo_head)
    IN  [c \in chans |-> user_map(conv)[CHOOSE n \in names : user_map(conv)[n][1] = c][2]]

\* The header with "satellites" put last, not first.
convert_head_appended(conv, header) ==
    LET vbo_names == [i \in 1..Len(header) |-> map_name(conv, header[i])]
        vbo_head == SelectIdx(vbo_names, {i \in 1..Len(header) : vbo_names[i] # "None"}, 1)
    IN  IF "satellites" \notin Range(vbo_head) THEN vbo_head \o <<"satellites">> ELSE vbo_head

\* The header Converter.convert gives the VBO data frame.
convert_head(conv, header) ==
    LET vbo_names == [i \in 1..Len(header) |-> map_name(conv, header[i])]
        vbo_head == SelectIdx(vbo_names, {i \in 1..Len(header) : vbo_names[i] # "None"}, 1)
    IN  IF "satellites" \notin Range(vbo_head) THEN <<"satellites">> \o vbo_head ELSE vbo_head

\* Converter.convert.
convert(conv, data) ==
    LET header == data.head
        vbo_names == [i \in 1..Len(header) |-> map_name(conv, header[i])]
        vbo_head == convert_head(conv, header)
        base_row == IF "satellites" \notin Range(vbo_names) THEN <<DecInt(5)>> ELSE <<>>
        vbo_rows == convert_rows(conv, data.data, vbo_names, base_row, <<>>, FALSE)
    IN  DataFrame(vbo_head, vbo_rows, data.info, convert_units(conv, header, vbo_head))

\* What Converter.convert prints to stderr: the warnings of every row.
convert_warnings(conv, data) ==
    LET vbo_names == [i \in 1..Len(data.head) |-> map_name(conv, data.head[i])]
    IN  Concat([r \in 1..Len(data.data) |-> map_warnings(conv, data.data[r], vbo_names)])


----------------------------------------------------------------------------
(* interpolate_vbo.                                                        *)

\* Decimal(value) of a cell of a VBO row: of a Decimal, or of the str "-0".
cell_decimal(value) == IF IsDec(value) THEN value ELSE Dec(TRUE, 0, 1)

\* next_row = [Decimal(value) for value in row].
decimal_row(row) == [i \in 1..Len(row) |-> cell_decimal(row[i])]

\* _interpolate with the fraction applied from row_b, not from row_a.
interpolate_row_from_b(row_a, row_b, offset, fraction, time_index) ==
    [i \in 1..Min(Len(row_a), Len(row_b)) |->
        IF i # time_index THEN DecFma(fraction, DecSub(row_b[i], row_a[i]), row_b[i])
        ELSE DecAdd(row_a[i], offset)]

\* _interpolate: the row at last_row's time plus offset; zip stops at the
\* shorter of the two rows.
interpolate_row(row_a, row_b, offset, fraction, time_index) ==
    [i \in 1..Min(Len(row_a), Len(row_b)) |->
        IF i # time_index THEN DecFma(fraction, DecSub(row_b[i], row_a[i]), row_a[i])
        ELSE DecAdd(row_a[i], offset)]

\* The inserted rows with range(1, ceil(...) + 1): a step too many.
interpolate_steps_one_more(last_row, next_row, res, time_index) ==
    LET time_diff == DecSub(next_row[time_index], last_row[time_index])
        steps == DecCeil(DecDiv(time_diff, res))
    IN  [step \in 1..steps |->
            LET offset == DecMul(DecInt(step), res)
                fraction == DecDiv(offset, time_diff)
            IN  interpolate_row(last_row, next_row, offset, fraction, time_index)]

\* The rows inserted between last_row and next_row: one for every step of
\* range(1, ceil(time_diff / resolution)).
interpolate_steps(last_row, next_row, res, time_index) ==
    LET time_diff == DecSub(next_row[time_index], last_row[time_index])
        steps == DecCeil(DecDiv(time_diff, res)) - 1
    IN  [step \in 1..steps |->
            LET offset == DecMul(DecInt(step), res)
                fraction == DecDiv(offset, time_diff)
            IN  interpolate_row(last_row, next_row, offset, fraction, time_index)]

RECURSIVE interpolate_rows(_, _, _, _)
\* The loop of interpolate_vbo over the rows from the i-th on.
interpolate_rows(rows, res, time_index, i) ==
    IF i > Len(rows) THEN <<>>
    ELSE (IF i = 1 THEN <<>>
          ELSE interpolate_steps(decimal_row(rows[i - 1]), decimal_row(rows[i]),
                                 res, time_index))
         \o <<rows[i]>> \o interpolate_rows(rows, res, time_index, i + 1)

\* Whether the loop reads the time of a row that has none (an IndexError):
\* it reads the time of both rows of every pair of consecutive rows.
interpolate_fails(data, time_index) ==
    \E i \in 2..Len(data.data) :
        Len(data.data[i]) < time_index \/ Len(data.data[i - 1]) < time_index

\* interpolate_vbo for a header with "time" and rows that have a time.
interpolate_vbo(data, res) ==
    LET time_index == IndexOf(data.head, "time")
    IN  DataFrame(data.head, interpolate_rows(data.data, res, time_index, 1),
                  data.info, data.units)

----------------------------------------------------------------------------
(* format_vbo.                                                             *)

\* n/d rounded to an integer, halves up (n >= 0, d > 0).
RoundHalfUp(n, d) == (2 * n + d) \div (2 * d)

\* The sign "%d" and "%f" print: "-" for a negative value (a negative zero of
\* "%f" too), "+" for the others under the flag "+".
SignText(neg, plus) == IF neg THEN <<"-">> ELSE IF plus THEN <<"+">> ELSE <<>>

\* "%0<width>d" % i for an integer i.
format_int(i, width) ==
    LET sign == SignText(i < 0, FALSE) IN sign \o ZeroPad(IntText(Abs(i)), width - Len(sign))

\* format_vbo._seconds_to_hms for secs whose whole part is not negative: the
\* time of day of the whole seconds, a point, and "%02d" of the rest in
\* hundredths, rounded halves up (away from zero).
seconds_to_hms(secs) ==
    LET int_secs == DecTrunc(secs)
        rel_time == [hour |-> (int_secs \div 3600) % 24,
                     minute |-> (int_secs \div 60) % 60, second |-> int_secs % 60]
        rest == DecSub(secs, DecInt(int_secs))
        hundredths == RoundHalfUp(rest.n * 100, rest.d)
        int_msecs == IF rest.neg THEN -hundredths ELSE hundredths
    IN  format_int(rel_time.hour, 2) \o format_int(rel_time.minute, 2)
        \o format_int(rel_time.second, 2) \o <<".">> \o format_int(int_msecs, 2)

\* "%0<width>d" % v: the value truncated to an integer.
format_d(v, width) == format_int(DecTrunc(v), width)

\* "%0<width>.<places>f" % v, with "+" under plus.  The value goes through a
\* binary float: a value half way between two results is printed as either,
\* the one above (up) or the one below.
format_f(v, plus, width, places, up) ==
    LET num == v.n * Pow10(places)
        low == num \div v.d
        scaled == IF 2 * (num % v.d) > v.d \/ (2 * (num % v.d) = v.d /\ up)
                  THEN low + 1 ELSE low
        sign == SignText(v.neg, plus)
        body == IntText(scaled \div Pow10(places)) \o <<".">>
                \o ZeroPad(IntText(scaled % Pow10(places)), places)
    IN  sign \o ZeroPad(body, width - Len(sign))

\* The names format_vbo has a formatter for.
vbo_formatters ==
    {"satellites", "time", "latitude", "longitude", "velocity kmh", "heading",
     "height", "LatAcc", "LongAcc"}

\* vbo_formatters[name](val) for a Decimal val.
format_value(name, val, up) ==
    CASE name = "satellites" -> format_d(val, 3)
      [] name = "time" -> seconds_to_hms(val)
      [] name \in {"latitude", "longitude"} -> format_f(val, TRUE, 12, 5, up)
      [] name = "velocity kmh" -> format_f(val, FALSE, 7, 3, up)
      [] name = "heading" -> format_f(val, FALSE, 6, 2, up)
      [] name = "height" -> format_f(val, TRUE, 9, 2, up)
      [] name \in {"LatAcc", "LongAcc"} -> format_f(val, TRUE, 6, 3, up)

\* The exception the formatter of a cell raises, "None" when it returns:
\* every formatter does a number's arithmetic on its value, which the str
\* "-0" does not take (a TypeError), and _seconds_to_hms has no time of day
\* for negative whole seconds (an OverflowError).
format_exception(name, val) ==
    IF ~IsDec(val) THEN "TypeError"
    ELSE IF name = "time" /\ DecTrunc(val) < 0 THEN "OverflowError"
    ELSE "None"

\* The cells format_vbo formats, in its order: row by row, column by column.
format_cells(data) ==
    Concat([r \in 1..Len(data.data) |->
               [i \in 1..Min(Len(data.data[r]), Len(data.head)) |->
                   format_exception(data.head[i], data.data[r][i])]])

\* The exception that ends format_vbo: that of the first formatter to raise.
format_raises(data) ==
    LET cells == format_cells(data)
        bad == {j \in 1..Len(cells) : cells[j] # "None"}
    IN  IF bad = {} THEN "None" ELSE cells[CHOOSE j \in bad : \A l \in bad : j <= l]

\* format_vbo for a table none of whose cells makes a formatter raise.
format_vbo(data, up) ==
    DataFrame(data.head,
              [r \in 1..Len(data.data) |->
                  [i \in 1..Min(Len(data.data[r]), Len(data.head)) |->
                      format_value(data.head[i], data.data[r][i], up)]],
              data.info, data.units)


----------------------------------------------------------------------------
(* write_vbo.                                                              *)

\* The required base types and their column names.
base_types ==
    <<<<"satellites", "sats">>, <<"time", "time">>, <<"latitude", "lat">>,
      <<"longitude", "long">>>>

\* The optional base types and their column names.
opt_base_types ==
    <<<<"velocity kmh", "velocity">>, <<"heading", "heading">>, <<"height", "height">>,
      <<"vertical velocity m/s", "vert-vel">>, <<"vertical velocity kmh", "vert-vel">>,
      <<"yaw rate deg/s", "yaw-calc">>>>

\* base_types after base_types.update(...): the optional base types of the
\* header are added in the order of opt_base_types.
write_base_types(header) ==
    base_types \o SelectIdx(opt_base_types,
                            {i \in 1..Len(opt_base_types) : opt_base_types[i][1] \in Range(header)},
                            1)

\* user_types: the names of the header that are no base types.
write_user_types(header) ==
    LET types == write_base_types(header)
        keys == {types[i][1] : i \in 1..Len(types)}
    IN  SelectIdx(header, {i \in 1..Len(header) : header[i] \notin keys}, 1)

\* out_order.
out_order(header) ==
    LET types == write_base_types(header)
    IN  [i \in 1..Len(types) |-> types[i][1]] \o write_user_types(header)

\* The names of the [column names] line.
column_names(header) ==
    LET types == write_base_types(header)
    IN  [i \in 1..Len(types) |-> types[i][2]] \o write_user_types(header)

RECURSIVE Join(_, _)
\* sep.join(texts).
Join(sep, texts) ==
    IF texts = <<>> THEN <<>>
    ELSE IF Len(texts) = 1 THEN texts[1]
    ELSE texts[1] \o <<sep>> \o Join(sep, Tail(texts))

\* text.split(":")[0].
BeforeColon(text) ==
    IF IndexOf(text, ":") = 0 THEN text ELSE SubSeq(text, 1, IndexOf(text, ":") - 1)

\* The line of one comment row, none for a row without values.
comment_lines(row) ==
    IF Len(row) = 1 THEN <<row[1]>>
    ELSE IF Len(row) > 1 /\ Len(Concat(Tail(row))) > 0
    THEN <<BeforeColon(row[1]) \o <<" ", ":", " ">> \o Join(";", Tail(row))>>
    ELSE <<>>

\* Whether the [data] line of a row cannot be built: the row lacks a column
\* of out_order (an IndexError).
data_line_fails(header, row) ==
    LET order == out_order(header)
    IN  \E k \in 1..Len(order) : LastIndexOf(header, order[k]) > Len(row)

\* The [data] line with the values in the order of the table's own columns.
data_line_unordered(header, row) ==
    Join(" ", [k \in 1..Len(out_order(header)) |-> row[k]])

\* The [data] line of a row.
data_line(header, row) ==
    LET order == out_order(header)
    IN  Join(" ", [k \in 1..Len(order) |-> row[LastIndexOf(header, order[k])]])

\* The rows written before the first that cannot be.
rows_written(data) ==
    LET bad == {r \in 1..Len(data.data) : data_line_fails(data.head, data.data[r])}
    IN  IF bad = {} THEN data.data
        ELSE SubSeq(data.data, 1, (CHOOSE r \in bad : \A q \in bad : r <= q) - 1)

\* Whether write_vbo cannot look a required base type up in the header (the
\* index of a row is None: a TypeError).
write_lacks(data) ==
    LET order == out_order(data.head)
    IN  \E k \in 1..Len(order) : order[k] \notin Range(data.head)

\* Whether write_vbo ends in an exception, and which.
write_raises(data) ==
    IF data.data # <<>> /\ write_lacks(data) THEN "TypeError"
    ELSE IF \E r \in 1..Len(data.data) : data_line_fails(data.head, data.data[r])
    THEN "IndexError"
    ELSE "None"

\* The lines write_vbo prints, each a text; now is the time of the banner.
write_vbo(data, now) ==
    LET user_types == write_user_types(data.head)
        order == out_order(data.head)
        names == column_names(data.head)
        rows == rows_written(data)
    IN  <<<<"File created on ", now>>, <<>>, <<"[header]">>>>
        \o [k \in 1..Len(order) |-> <<order[k]>>]
        \o (IF Len(user_types) > 0
            THEN <<<<>>, <<"[channel units]">>>>
                 \o [k \in 1..Len(user_types) |->
                        IF user_types[k] \in DOMAIN data.units
                        THEN <<data.units[user_types[k]]>> ELSE <<"None">>]
            ELSE <<>>)
        \o <<<<>>, <<"[comments]">>>>
        \o Concat([r \in 1..Len(data.info) |-> comment_lines(data.info[r])])
        \o <<<<>>, <<"[column names]">>, Join(" ", [k \in 1..Len(names) |-> <<names[k]>>])>>
        \o <<<<>>, <<"[data]">>>>
        \o (IF write_lacks(data) THEN <<>>
            ELSE [r \in 1..Len(rows) |-> data_line(data.head, rows[r])])


----------------------------------------------------------------------------
(* read_csv and find_converter.                                            *)

\* rows: the records with items, every item stripped.
read_rows(input) ==
    SelectIdx([r \in 1..Len(input) |-> [i \in 1..Len(input[r]) |-> Strip(input[r][i])]],
              {r \in 1..Len(input) : Len(input[r]) > 0}, 1)

\* max(rows, key=len): the first row with the maximal number of items.
head_row(rows) ==
    rows[CHOOSE i \in 1..Len(rows) :
            /\ \A j \in 1..Len(rows) : Len(rows[j]) <= Len(rows[i])
            /\ \A j \in 1..(i - 1) : Len(rows[j]) < Len(rows[i])]

\* read_csv for an input with a record that has items.
read_csv(input) ==
    LET rows == read_rows(input)
        head == head_row(rows)
        head_index == IndexOf(rows, head)
    IN  DataFrame(head,
                  SelectIdx(rows, {r \in head_index..Len(rows) : rows[r] # head}, 1),
                  SubSeq(rows, 1, head_index - 1), <<>>)

\* find_converter: the first converter that recognizes the header.
find_converter(data) ==
    LET found == {i \in 1..Len(converters) : recognizes(converters[i], data.head)}
    IN  IF found = {} THEN "None" ELSE converters[CHOOSE i \in found : \A j \in found : i <= j]

----------------------------------------------------------------------------
(* The script: the statements after the definitions, one action each.      *)

\* with sys.stdin as csv_input: csv_data = read_csv(csv_input).  max() of no
\* rows raises a ValueError.
ReadCsv ==
    /\ pc = "read_csv"
    /\ IF read_rows(csv_input) = <<>>
       THEN /\ pc' = "raised"
            /\ raised' = "ValueError"
            /\ UNCHANGED csv_data
       ELSE /\ pc' = "find_converter"
            /\ csv_data' = read_csv(csv_input)
            /\ UNCHANGED raised
    /\ UNCHANGED <<resolution, csv_input, converter, vbo_data, vbo_output, stderr>>

\* converter = find_converter(csv_data), and the exit when it is None.
FindConverter ==
    /\ pc = "find_converter"
    /\ converter' = find_converter(csv_data)
    /\ IF converter' = "None"
       THEN /\ pc' = "exit"
            /\ stderr' = Append(stderr, "error: unable to recognize input format")
       ELSE /\ pc' = "convert"
            /\ UNCHANGED stderr
    /\ UNCHANGED <<resolution, csv_input, csv_data, vbo_data, vbo_output, raised>>

\* converter.convert(csv_data).  _get_mapper raises for a VBO name without a
\* mapper; the names of the three converters all have one.
Convert ==
    /\ pc = "convert"
    /\ IF \E i \in 1..Len(csv_data.head) :
              map_name(converter, csv_data.head[i]) \notin value_map_keys \cup {"None"}
       THEN /\ pc' = "raised"
            /\ raised' = "Exception"
            /\ UNCHANGED <<vbo_data, stderr>>
       ELSE /\ pc' = "interpolate_vbo"
            /\ vbo_data' = convert(converter, csv_data)
            /\ stderr' = stderr \o convert_warnings(converter, csv_data)
            /\ UNCHANGED raised
    /\ UNCHANGED <<resolution, csv_input, csv_data, converter, vbo_output>>

\* interpolate_vbo(..., resolution).  header().index("time") raises a
\* ValueError for a header without "time".
Interpolate ==
    /\ pc = "interpolate_vbo"
    /\ IF "time" \notin Range(vbo_data.head)
       THEN /\ pc' = "raised"
            /\ raised' = "ValueError"
            /\ UNCHANGED vbo_data
       ELSE IF interpolate_fails(vbo_data, IndexOf(vbo_data.head, "time"))
       THEN /\ pc' = "raised"
            /\ raised' = "IndexError"
            /\ UNCHANGED vbo_data
       ELSE /\ pc' = "format_vbo"
            /\ vbo_data' = interpolate_vbo(vbo_data, resolution)
            /\ UNCHANGED raised
    /\ UNCHANGED <<resolution, csv_input, csv_data, converter, vbo_output, stderr>>

\* format_vbo(vbo_data).  It raises an Exception for a name of the header
\* without a formatter.
FormatVbo ==
    /\ pc = "format_vbo"
    /\ \E up \in BOOLEAN :
        IF \E i \in 1..Len(vbo_data.head) : vbo_data.head[i] \notin vbo_formatters
        THEN /\ pc' = "raised"
             /\ raised' = "Exception"
             /\ UNCHANGED vbo_data
        ELSE IF format_raises(vbo_data) # "None"
        THEN /\ pc' = "raised"
             /\ raised' = format_raises(vbo_data)
             /\ UNCHANGED vbo_data
        ELSE /\ pc' = "write_vbo"
             /\ vbo_data' = format_vbo(vbo_data, up)
             /\ UNCHANGED raised
    /\ UNCHANGED <<resolution, csv_input, csv_data, converter, vbo_output, stderr>>

\* The times datetime.now() gives the banner.
Clock == {"01/05/2014 at 10:15:00 AM", "01/05/2014 at 10:15:01 AM"}

\* with sys.stdout as vbo_output: write_vbo(..., vbo_output).  The lines
\* printed before an exception stay written.
WriteVbo ==
    /\ pc = "write_vbo"
    /\ \E now \in Clock : vbo_output' = write_vbo(vbo_data, now)
    /\ IF write_raises(vbo_data) # "None"
       THEN /\ pc' = "raised"
            /\ raised' = write_raises(vbo_data)
       ELSE /\ pc' = "done"
            /\ UNCHANGED raised
    /\ UNCHANGED <<resolution, csv_input, csv_data, converter, vbo_data, stderr>>

----------------------------------------------------------------------------
(* The inputs of the script.                                               *)

\* The most data records of an input.
MaxRows == 3

\* Headers: G-Tech in the converter's order; G-Tech in another order, with
\* user channels and a column no converter knows; G-Tech with blanks around
\* the names; RaceChrono and TrackMaster with a user channel; a header no
\* converter recognizes.
HeaderGTech == <<N("Time(s)"), N("GPS_Lat"), N("GPS_Lon"), N("Speed(kph)"), N("Heading(deg)")>>

HeaderGTechMixed ==
    <<N("G-Force_Lat(G)"), N("Heading(deg)"), N("Temp"), N("GPS_Lon"), N("GPS_Lat"),
      N("Time(s)"), N("Speed(kph)"), N("G-Force_Fwd(G)")>>

HeaderGTechBlanks ==
    <<<<" ", "Time(s)">>, <<"GPS_Lat", " ">>, <<" ", "GPS_Lon", " ">>, N("Speed(kph)"),
      N("Heading(deg)")>>

HeaderRaceChrono ==
    <<N("Timestamp (s)"), N("Lateral Acceleration (G)"), N("Altitude (m)"),
      N("Locked satellites"), N("Latitude (deg)"), N("Longitude (deg)"),
      N("Speed (kph)"), N("Bearing (deg)")>>

HeaderTrackMaster ==
    <<N("time="), N("latitude="), N("longitude="), N("speed="), N("bearing="),
      N("altitude="), N("accel=")>>

HeaderUnknown == <<N("Time(s)"), N("GPS_Lat"), N("Speed(kph)")>>

InputHeaders ==
    {HeaderGTech, HeaderGTechMixed, HeaderGTechBlanks, HeaderRaceChrono,
     HeaderTrackMaster, HeaderUnknown}

\* The time stamp of TrackMaster for the seconds a text of the form d.ff
\* gives, at noon.
Stamp(t) == <<"2014-05-01T", "1", "2", ":", "0", "0", ":", "0", t[1], ".">> \o SubSeq(t, 3, Len(t)) \o <<"+0200">>

\* The record of a header with the time t in its time column and the value v
\* in every other column.
Record(header, t, v) ==
    [i \in 1..Len(header) |->
        IF Strip(header[i]) = N("time=") THEN Stamp(t)
        ELSE IF Strip(header[i]) \in {N("Time(s)"), N("Timestamp (s)")} THEN t
        ELSE v]

\* The times and values of the data records: a pair of records that differ
\* in their text and not in their values, a record 0.35 s later, one with a
\* value that is no number.
Samples ==
    {<<<<"0", ".", "0", "0">>, <<"1", ".", "0">>>>,
     <<<<"0", ".", "0", "0">>, <<"1", ".", "0", "0">>>>,
     <<<<"0", ".", "3", "5">>, <<" ", "2", ".", "5">>>>,
     <<<<"0", ".", "3", "5">>, <<"x">>>>}

\* The data records of a header.
DataRecords(header) == {Record(header, s[1], s[2]) : s \in Samples}

\* The records after a header: data records, the header once more, a record
\* without items, a record that lacks its last item.
Records(header) ==
    DataRecords(header)
    \cup {header, <<>>,
          SubSeq(Record(header, <<"0", ".", "0", "5">>, <<"3">>), 1, Len(header) - 1)}

\* The records before a header: a line of text, a label with values, a
\* label without.
InfoRecords ==
    <<<<N("Session one")>>, <<<<"Date", ":", " today">>, N("1 May"), N("noon")>>,
      <<N("Notes"), <<>>>>>>

\* The inputs: none; a header and data records; the G-Tech header and
\* records of every kind; records before a header.
Inputs ==
    {<<>>}
    \cup UNION {{<<header>> \o rows :
                    rows \in UNION {[1..n -> DataRecords(header)] : n \in 0..MaxRows}}
                : header \in InputHeaders}
    \cup {<<HeaderGTech>> \o rows :
              rows \in UNION {[1..n -> Records(HeaderGTech)] : n \in 0..MaxRows}}
    \cup {InfoRecords \o <<HeaderGTechMixed>> \o <<row>> : row \in Records(HeaderGTechMixed)}

Init ==
    /\ pc = "read_csv"
    /\ resolution = DecimalOf(<<"0", ".", "1", "0">>)
    /\ csv_input \in Inputs
    /\ csv_data = NoFrame
    /\ converter = "None"
    /\ vbo_data = NoFrame
    /\ vbo_output = <<>>
    /\ stderr = <<>>
    /\ raised = "None"

Next == ReadCsv \/ FindConverter \/ Convert \/ Interpolate \/ FormatVbo \/ WriteVbo

Spec == Init /\ [][Next]_vars


----------------------------------------------------------------------------
(* Recognition alone: find_converter for a header.                         *)

\* The header with the item at i left out.
DropAt(s, i) == SubSeq(s, 1, i - 1) \o SubSeq(s, i + 1, Len(s))

\* The header turned by k places.
Rotate(s, k) == SubSeq(s, k + 1, Len(s)) \o SubSeq(s, 1, k)

Reverse(s) == [i \in 1..Len(s) |-> s[Len(s) + 1 - i]]

\* The columns of the base map of each converter.
BaseColumns ==
    {<<N("Locked satellites"), N("Timestamp (s)"), N("Latitude (deg)"), N("Longitude (deg)"),
       N("Speed (kph)"), N("Bearing (deg)"), N("Altitude (m)")>>,
     HeaderGTech,
     <<N("time="), N("latitude="), N("longitude="), N("speed="), N("bearing="),
       N("altitude=")>>}

\* Columns beside them: one no converter knows, a user channel, a base
\* column of another converter in another spelling.
ExtraColumns == {N("Temp"), N("G-Force_Lat(G)"), N("speed(kph)")}

\* The complete columns of a converter, and those with one left out.
Cores == BaseColumns \cup UNION {{DropAt(b, i) : i \in 1..Len(b)} : b \in BaseColumns}

\* The headers: the cores, alone, with an extra column, and with the
\* columns of a second converter; each in every rotation and backwards.
RecognizeHeaders ==
    LET mixed == Cores \cup {c \o <<x>> : c \in Cores, x \in ExtraColumns}
                       \cup {c \o b : c \in Cores, b \in BaseColumns}
    IN  {<<>>} \cup UNION {{Rotate(h, k) : k \in 0..(Len(h) - 1)} \cup {Reverse(h)} : h \in mixed}

InitRecognize ==
    /\ pc = "find_converter"
    /\ resolution = DecimalOf(<<"0", ".", "1", "0">>)
    /\ csv_input = <<>>
    /\ \E header \in RecognizeHeaders : csv_data = DataFrame(header, <<>>, <<>>, <<>>)
    /\ converter = "None"
    /\ vbo_data = NoFrame
    /\ vbo_output = <<>>
    /\ stderr = <<>>
    /\ raised = "None"

SpecRecognize == InitRecognize /\ [][FindConverter]_vars

\* The keys of a converter's base map are all items of the header.
KeysIn(conv, header) == DOMAIN base_map(conv) \subseteq Range(header)

\* C1: after find_converter the converter is the first of RaceChrono,
\* GTechFanatic, TrackMaster whose base map keys are all in the header,
\* whatever the order of the header and whatever else it holds, and none
\* exactly when no converter has all its keys in the header.
C1_FirstMatchingProfile ==
    pc # "find_converter" =>
        LET header == csv_data.head
        IN  /\ converter =
                 (IF KeysIn(RaceChrono, header) THEN RaceChrono
                  ELSE IF KeysIn(GTechFanatic, header) THEN GTechFanatic
                  ELSE IF KeysIn(TrackMaster, header) THEN TrackMaster
                  ELSE "None")
            /\ (converter = "None") = (pc = "exit")
            /\ \A conv \in Range(converters) :
                  (KeysIn(conv, header)
                   /\ \A other \in Range(converters) \ {conv} : ~KeysIn(other, header))
                  => converter = conv

\* C1 witness: a header that holds the G-Tech columns out of their order and
\* a column beside them, and the columns of no other converter, is G-Tech's.
C1_Witness ==
    /\ pc = "convert"
    /\ converter = GTechFanatic
    /\ csv_data.head[1] # N("Time(s)")
    /\ N("Temp") \in Range(csv_data.head)
    /\ ~KeysIn(RaceChrono, csv_data.head) /\ ~KeysIn(TrackMaster, csv_data.head)


----------------------------------------------------------------------------
(* Converter.convert in the run of the script.                             *)

\* The canonical names of the columns of the CSV header, in its order.
ResolvedNames ==
    LET names == [i \in 1..Len(csv_data.head) |-> map_name(converter, csv_data.head[i])]
    IN  SelectIdx(names, {i \in 1..Len(names) : names[i] # "None"}, 1)

\* The canonical row of the r-th CSV data row: the default of a missing
\* "satellites", then the mapped values of the supported columns.
CanonicalRow(r) ==
    LET names == [i \in 1..Len(csv_data.head) |-> map_name(converter, csv_data.head[i])]
    IN  (IF "satellites" \in Range(names) THEN <<>> ELSE <<DecInt(5)>>)
        \o map_values(converter, csv_data.data[r], names)

\* C2: no two consecutive rows of the table convert returns are equal, and
\* its rows are the canonical rows of the input rows, in order, without
\* those equal to the canonical row of the input row just before: of a run
\* of equal canonical rows one is kept, equal rows apart are all kept.
C2_NoAdjacentDuplicates ==
    pc = "interpolate_vbo" =>
        LET rows == vbo_data.data
            kept == {r \in 1..Len(csv_data.data) :
                        r = 1 \/ ~RowEq(CanonicalRow(r), CanonicalRow(r - 1))}
        IN  /\ \A i \in 1..(Len(rows) - 1) : ~RowEq(rows[i], rows[i + 1])
            /\ rows = SelectIdx([r \in 1..Len(csv_data.data) |-> CanonicalRow(r)], kept, 1)

\* C2 witness: three raw rows, the second another text of the first row's
\* values (1.00 for 1.0), become two rows.
C2_Witness ==
    /\ pc = "interpolate_vbo"
    /\ Len(csv_data.data) = 3
    /\ csv_data.data[1] # csv_data.data[2]
    /\ RowEq(CanonicalRow(1), CanonicalRow(2))
    /\ ~RowEq(CanonicalRow(2), CanonicalRow(3))
    /\ Len(vbo_data.data) = 2

\* C7: when no column of the CSV header maps to "satellites", the header
\* convert returns is "satellites" and then the resolved names in the order
\* of the CSV header, and every row starts with the Decimal 5; when a column
\* maps to "satellites", the header is the resolved names and a row holds
\* mapped values only.
C7_SatellitesDefault ==
    pc = "interpolate_vbo" =>
        IF "satellites" \notin Range(ResolvedNames)
        THEN /\ vbo_data.head = <<"satellites">> \o ResolvedNames
             /\ \A r \in 1..Len(vbo_data.data) :
                   /\ Len(vbo_data.data[r]) >= 1
                   /\ vbo_data.data[r][1] = DecInt(5)
        ELSE /\ vbo_data.head = ResolvedNames
             /\ \A r \in 1..Len(vbo_data.data) :
                   \E q \in 1..Len(csv_data.data) :
                       vbo_data.data[r] = map_values(converter, csv_data.data[q],
                           [i \in 1..Len(csv_data.head) |-> map_name(converter, csv_data.head[i])])

\* C7 witness: a G-Tech log, whose header has no column for "satellites" and
\* starts with a user channel, converted to two rows.
C7_Witness ==
    /\ pc = "interpolate_vbo"
    /\ converter = GTechFanatic
    /\ csv_data.head = HeaderGTechMixed
    /\ vbo_data.head[1] = "satellites" /\ vbo_data.head[2] = "LatAcc"
    /\ Len(vbo_data.data) = 2


----------------------------------------------------------------------------
(* The text write_vbo prints.                                              *)

\* The lines of the section of a title: those after the title's line, up to
\* the next line without text.
Section(lines, title) ==
    LET at == IndexOf(lines, <<title>>)
        stop == IF \E j \in (at + 1)..Len(lines) : lines[j] = <<>>
                THEN CHOOSE j \in (at + 1)..Len(lines) :
                        lines[j] = <<>> /\ \A l \in (at + 1)..(j - 1) : lines[l] # <<>>
                ELSE Len(lines) + 1
    IN  SubSeq(lines, at + 1, stop - 1)

RECURSIVE Tokens(_)
\* The tokens of a line: its pieces between blanks.
Tokens(line) ==
    IF IndexOf(line, " ") = 0 THEN <<line>>
    ELSE <<SubSeq(line, 1, IndexOf(line, " ") - 1)>>
         \o Tokens(SubSeq(line, IndexOf(line, " ") + 1, Len(line)))

\* The optional base channels in the order of preference.
OptionalOrder ==
    <<"velocity kmh", "heading", "height", "vertical velocity m/s",
      "vertical velocity kmh", "yaw rate deg/s">>

\* The names [header] is to list for a table header: the four required
\* channels, the optional base channels of the header in the order of
\* preference, the other channels of the header in its order.
ExpectedNames(header) ==
    LET required == <<"satellites", "time", "latitude", "longitude">>
        optional == SelectIdx(OptionalOrder,
                              {i \in 1..Len(OptionalOrder) : OptionalOrder[i] \in Range(header)}, 1)
        user == SelectIdx(header,
                          {i \in 1..Len(header) :
                              header[i] \notin Range(required) \cup Range(OptionalOrder)}, 1)
    IN  required \o optional \o user

\* The display name of a channel: a short name for a base channel, its own
\* name for a user channel.
DisplayName(name) ==
    CASE name = "satellites" -> "sats"
      [] name = "latitude" -> "lat"
      [] name = "longitude" -> "long"
      [] name = "velocity kmh" -> "velocity"
      [] name \in {"vertical velocity m/s", "vertical velocity kmh"} -> "vert-vel"
      [] name = "yaw rate deg/s" -> "yaw-calc"
      [] OTHER -> name

\* C9: in the text of a finished run [header] lists the expected names, the
\* [column names] line has the display name of each in the same order, and
\* the k-th token of the [data] line of every row is the value the row has
\* in the table's column of the k-th name.
C9_WriterColumnOrder ==
    pc = "done" =>
        LET names == ExpectedNames(vbo_data.head)
            listed == Section(vbo_output, "[header]")
            shown == Section(vbo_output, "[column names]")
            lines == Section(vbo_output, "[data]")
        IN  /\ listed = [k \in 1..Len(names) |-> <<names[k]>>]
            /\ Len(shown) = 1
            /\ Tokens(shown[1]) = [k \in 1..Len(names) |-> <<DisplayName(names[k])>>]
            /\ Len(lines) = Len(vbo_data.data)
            /\ \A r \in 1..Len(lines) :
                  Tokens(lines[r]) =
                      [k \in 1..Len(names) |-> vbo_data.data[r][IndexOf(vbo_data.head, names[k])]]

\* C9 witness: a finished run of a table whose columns are not in the order
\* of the text (a user channel first, the time fifth), with two rows or more.
C9_Witness ==
    /\ pc = "done"
    /\ vbo_data.head[2] = "LatAcc"
    /\ IndexOf(vbo_data.head, "time") = 6
    /\ Len(vbo_data.data) >= 2
    /\ Len(Section(vbo_output, "[data]")) = Len(vbo_data.data)

----------------------------------------------------------------------------
(* The claims the script does not keep.                                    *)

\* Every row of the table has a value for every name of the header.
Aligned(data) == \A r \in 1..Len(data.data) : Len(data.data[r]) = Len(data.head)

\* C3: a run in which the transform of a cell failed (convert printed its
\* warning and put "-0" in the cell) ends in no exception and writes the
\* whole text.  Checked for inputs whose rows all have the items of the
\* header.
C3_MalformedCellKeepsGoing ==
    (stderr # <<>> /\ converter # "None" /\ Aligned(csv_data)) =>
        /\ raised = "None"
        /\ pc \in {"interpolate_vbo", "format_vbo", "write_vbo", "done"}

\* C8: in the table of every stage (read_csv, convert, interpolate_vbo,
\* format_vbo) every row has as many values as the header has names.
C8_RowsAligned == Aligned(csv_data) /\ Aligned(vbo_data)


----------------------------------------------------------------------------
(* interpolate_vbo alone: a table of samples and a resolution.             *)

\* The most rows of a table of samples.
MaxSamples == 3

\* A number with two places: the hundredths h.
Hundredths(h) == Dec(h < 0, Abs(h), 100)

\* The times of the samples, and the values of their two channels: numbers,
\* and the "-0" of a cell that convert could not map.
SampleTimes == {Hundredths(0), Hundredths(10), Hundredths(35), Hundredths(100)}

SampleValues ==
    {<<DecInt(10), Hundredths(-150)>>, <<DecInt(20), Hundredths(25)>>}

\* The rows under the header heading, time, height.
SampleRows ==
    {<<v[1], t, v[2]>> : t \in SampleTimes, v \in SampleValues}
    \cup {<<Sentinel, Hundredths(35), DecInt(10)>>}

Resolutions == {Hundredths(10), Hundredths(50)}

InitInterpolate ==
    /\ pc = "interpolate_vbo"
    /\ resolution \in Resolutions
    /\ csv_input = <<>>
    /\ csv_data = NoFrame
    /\ converter = "None"
    /\ \E rows \in UNION {[1..n -> SampleRows] : n \in 0..MaxSamples} :
          vbo_data = DataFrame(<<"heading", "time", "height">>, rows, <<>>, <<>>)
    /\ vbo_output = <<>>
    /\ stderr = <<>>
    /\ raised = "None"

SpecInterpolate == InitInterpolate /\ [][Interpolate]_vars

\* The time of a row.
TimeOf(data, row) == cell_decimal(row[IndexOf(data.head, "time")])

\* The time from the i-th row of a table to the next.
Gap(data, i) == DecSub(TimeOf(data, data.data[i + 1]), TimeOf(data, data.data[i]))

\* The least integer m with m * res >= d, for d > 0 and res > 0.
CeilRatio(d, res) ==
    CHOOSE m \in 0..(d.n * res.d) :
        /\ m * res.n * d.d >= d.n * res.d
        /\ (m - 1) * res.n * d.d < d.n * res.d

\* The number of rows due between the i-th row and the next.
Inserted(data, res, i) ==
    IF DecLess(res, Gap(data, i)) THEN CeilRatio(Gap(data, i), res) - 1 ELSE 0

RECURSIVE Place(_, _, _)
\* The place the i-th row is due at in the result.
Place(data, res, i) ==
    IF i = 1 THEN 1 ELSE Place(data, res, i - 1) + Inserted(data, res, i - 1) + 1

\* The rows of before are rows of after, as they were and in their order,
\* and between two that follow each other after has the rows due, the k-th
\* at the time of the first plus k times the resolution.
RowsInterpolated(before, after, res) ==
    LET n == Len(before.data)
    IN  /\ after.head = before.head
        /\ Len(after.data) = IF n = 0 THEN 0 ELSE Place(before, res, n)
        /\ \A i \in 1..n : after.data[Place(before, res, i)] = before.data[i]
        /\ \A i \in 1..(n - 1) : \A k \in 1..Inserted(before, res, i) :
              LET row == after.data[Place(before, res, i) + k]
              IN  /\ Len(row) = Len(before.head)
                  /\ \A c \in 1..Len(row) : IsDec(row[c])
                  /\ TimeOf(after, row)
                        = DecAdd(TimeOf(before, before.data[i]), DecMul(DecInt(k), res))

\* The times of a table do not decrease.
NonDecreasing(data) ==
    \A i \in 1..(Len(data.data) - 1) : DecLeq(DecInt(0), Gap(data, i))

\* No step of the time of a table is more than the resolution.
StepsWithin(data, res) ==
    \A i \in 1..(Len(data.data) - 1) : DecLeq(Gap(data, i), res)

\* The times of the rows of a table.
Times(data) == [i \in 1..Len(data.data) |-> TimeOf(data, data.data[i])]

\* C4: interpolate_vbo keeps the rows of its table as they are and in their
\* order, and puts between two that follow each other ceil(gap/resolution)-1
\* rows when the gap is more than the resolution and none otherwise, the
\* k-th at the first row's time plus k times the resolution; so the time of
\* a table with non-decreasing times steps by the resolution at most, and
\* samples at 0.00 and 0.35 with the resolution 0.10 give the five rows at
\* 0.00, 0.10, 0.20, 0.30, 0.35.
C4_InterpolationRows ==
    [][(pc = "interpolate_vbo" /\ pc' = "format_vbo") =>
          /\ RowsInterpolated(vbo_data, vbo_data', resolution)
          /\ NonDecreasing(vbo_data) => StepsWithin(vbo_data', resolution)
          /\ (Times(vbo_data) = <<Hundredths(0), Hundredths(35)>>
              /\ resolution = Hundredths(10))
             => Times(vbo_data') = <<Hundredths(0), Hundredths(10), Hundredths(20),
                                     Hundredths(30), Hundredths(35)>>]_vars

\* C4 witness: the five rows at 0.00, 0.10, 0.20, 0.30, 0.35 that the
\* resolution 0.10 makes of two samples.
C4_Witness ==
    /\ pc = "format_vbo"
    /\ resolution = Hundredths(10)
    /\ Times(vbo_data) = <<Hundredths(0), Hundredths(10), Hundredths(20),
                           Hundredths(30), Hundredths(35)>>
    /\ \A i \in 1..4 : DecLess(Times(vbo_data)[i], Times(vbo_data)[i + 1])

\* v lies between a and b.
Between(a, v, b) == (DecLeq(a, v) /\ DecLeq(v, b)) \/ (DecLeq(b, v) /\ DecLeq(v, a))

\* The values of the inserted rows lie on the line through the values a and
\* b of the rows around them: (v - a) * gap = k * res * (b - a).
ValuesInterpolated(before, after, res) ==
    \A i \in 1..(Len(before.data) - 1) : \A k \in 1..Inserted(before, res, i) :
        \A c \in 1..Len(before.head) :
            before.head[c] # "time" =>
                LET a == cell_decimal(before.data[i][c])
                    b == cell_decimal(before.data[i + 1][c])
                    v == after.data[Place(before, res, i) + k][c]
                IN  /\ DecEq(DecMul(DecSub(v, a), Gap(before, i)),
                             DecMul(DecMul(DecInt(k), res), DecSub(b, a)))
                    /\ Between(a, v, b)

----------------------------------------------------------------------------
(* format_vbo alone: a table of one time.                                  *)

\* Seconds of the day, in thousandths: the whole seconds and the
\* thousandths after them.
DaySeconds == {0, 1, 59, 60, 3599, 3600, 3661, 43200, 86399}

Thousandths == {0, 4, 5, 6, 10, 94, 500, 994, 995, 996, 999}

TimeValues == {Dec(FALSE, s * 1000 + m, 1000) : s \in DaySeconds, m \in Thousandths}

InitFormatTime ==
    /\ pc = "format_vbo"
    /\ resolution = DecimalOf(<<"0", ".", "1", "0">>)
    /\ csv_input = <<>>
    /\ csv_data = NoFrame
    /\ converter = "None"
    /\ \E secs \in TimeValues : vbo_data = DataFrame(<<"time">>, <<<<secs>>>>, <<>>, <<>>)
    /\ vbo_output = <<>>
    /\ stderr = <<>>
    /\ raised = "None"

SpecFormatTime == InitFormatTime /\ [][FormatVbo]_vars

\* The token HHMMSS.CC of a time of the day: hours, minutes and seconds of
\* the whole seconds, and the rest in hundredths, halves rounded up, as two
\* digits.
IsTimeToken(secs, token) ==
    LET whole == secs.n \div secs.d
        cc == (2 * 100 * (secs.n % secs.d) + secs.d) \div (2 * secs.d)
    IN  /\ Len(token) = 9
        /\ token[7] = "."
        /\ AllDigits(SubSeq(token, 1, 6)) /\ AllDigits(SubSeq(token, 8, 9))
        /\ DigitsVal(SubSeq(token, 1, 2)) = whole \div 3600
        /\ DigitsVal(SubSeq(token, 3, 4)) = (whole \div 60) % 60
        /\ DigitsVal(SubSeq(token, 5, 6)) = whole % 60
        /\ DigitsVal(SubSeq(token, 8, 9)) \in 0..99
        /\ DigitsVal(SubSeq(token, 8, 9)) = cc

\* C6: format_vbo makes of every time of the day the token HHMMSS.CC: six
\* digits, a point, two digits of hundredths in 00..99, the fraction rounded
\* halves up.
C6_TimeToken ==
    [][(pc = "format_vbo" /\ pc' = "write_vbo") =>
          IsTimeToken(vbo_data.data[1][1], vbo_data'.data[1][1])]_vars

----------------------------------------------------------------------------
(* TrackMasterConverter alone: the conversion of one time stamp.           *)

\* The hours, minutes and seconds of the time stamps, two digits each, and
\* their fractions of a second.
StampHours == {<<"0", "0">>, <<"1", "2">>, <<"2", "3">>}

StampMinutes == {<<"0", "0">>, <<"5", "9">>}

StampSeconds == {<<"0", "0">>, <<"5", "9">>}

StampFractions ==
    {<<"0">>, <<"5">>, <<"0", "5">>, <<"0", "0", "5">>, <<"0", "0", "0", "5">>,
     <<"2", "5">>, <<"0", "9">>, <<"1">>, <<"1", "0", "0", "0", "0", "0">>,
     <<"0", "9", "0", "0", "0", "0">>}

StampOf(h, m, s, f) ==
    <<"2014-05-01T">> \o h \o <<":">> \o m \o <<":">> \o s \o <<".">> \o f \o <<"+0200">>

InitDatetime ==
    /\ pc = "convert"
    /\ resolution = DecimalOf(<<"0", ".", "1", "0">>)
    /\ csv_input = <<>>
    /\ \E h \in StampHours, m \in StampMinutes, s \in StampSeconds, f \in StampFractions :
          csv_data = DataFrame(HeaderTrackMaster,
                               <<[i \in 1..Len(HeaderTrackMaster) |->
                                     IF i = 1 THEN StampOf(h, m, s, f) ELSE <<"1", ".", "5">>]>>,
                               <<>>, <<>>)
    /\ converter = TrackMaster
    /\ vbo_data = NoFrame
    /\ vbo_output = <<>>
    /\ stderr = <<>>
    /\ raised = "None"

SpecDatetime == InitDatetime /\ [][Convert]_vars

\* The seconds from midnight to a time stamp of the fields full.
SecondsOfDay(full) ==
    DecAdd(DecInt(full.hour * 3600 + full.minute * 60 + full.second),
           Dec(FALSE, full.microsecond, 1000000))

\* C10: the canonical time of a TrackMaster row is the seconds from the
\* midnight of its time stamp's day to the time stamp: H*3600 + M*60 + S +
\* U/1000000.
C10_SecondsSinceMidnight ==
    (pc = "interpolate_vbo" /\ converter = TrackMaster) =>
        \A r \in 1..Len(vbo_data.data) :
            LET value == csv_data.data[r][IndexOf(csv_data.head, N("time="))]
                time == vbo_data.data[r][IndexOf(vbo_data.head, "time")]
            IN  strptime_accepts(value) =>
                    IsDec(time) /\ DecEq(time, SecondsOfDay(strptime(value)))

============================================================================
